---- MODULE Spec2Model ----
(***************************************************************************)
(* Real-time gateway of the Arena backend: the connection registry kept by *)
(* WebSocketMiddleware (realtime/middleware.py) and the per-connection     *)
(* ArenaConsumer (realtime/consumers.py).                                  *)
(*                                                                         *)
(* Every handler is a coroutine of one asyncio event loop.  A handler that *)
(* contains no await (process_request, process_disconnect,                 *)
(* get_user_connections) cannot be interleaved with another task, so it is *)
(* one action.  The handlers of one connection run one after the other     *)
(* (process_request, connect, receive_json*, process_disconnect,           *)
(* disconnect); handlers of different connections interleave freely.       *)
(***************************************************************************)
EXTENDS Integers, Sequences, FiniteSets, TLC

VARIABLES
    now,                  \* time.time(), in clock ticks
    nextId,               \* number of uuid4 connection ids generated so far
    active_connections,   \* WebSocketMiddleware.active_connections
    user_connections,     \* WebSocketMiddleware.user_connections
    connection_metadata,  \* WebSocketMiddleware.connection_metadata
    attempt,              \* outcome of the latest process_request call
    consumer,             \* one ArenaConsumer per admitted scope
    group_members,        \* channel layer: group name -> channel names
    sweep,                \* outcome of the latest get_user_connections call
    reply,                \* frames sent while handling the latest inbound frame
    last_activity,        \* observation: time of the latest inbound frame
    burst,                \* observation: counters of the frames of a burst
    channel_queue,        \* channel layer: channel name -> events not yet taken
    delivery,             \* observation: what became of the events taken
    proposals,            \* Proposal rows: id -> stored status and cache entry
    requests,             \* Request rows: id -> stored status
    outcome,              \* result of the latest model or service call
    used_token,           \* cache: "used_token:<token>" entries
    verifier              \* verify_magic_link calls: position of each caller

vars == <<now, nextId, active_connections, user_connections,
          connection_metadata, attempt, consumer, group_members, sweep,
          reply, last_activity, burst, channel_queue, delivery,
          proposals, requests, outcome, used_token, verifier>>

registry == <<active_connections, user_connections, connection_metadata>>

fanout == <<channel_queue, delivery>>

\* the state of the gateway
gateway == <<now, nextId, registry, attempt, consumer, group_members, sweep,
             reply, last_activity, burst, fanout>>

\* the state of the services behind it
backend == <<proposals, requests, outcome, used_token, verifier>>

----------------------------------------------------------------------------
(* Bounds of the model *)

MaxIds == 11            \* connection ids generated in the registry model
MaxHandshakes == 2      \* connection ids generated in the handshake model
MaxSweepIds == 2        \* connection ids generated in the sweep model
TicksPerSecond == 2     \* resolution of the clock
MaxSweepTime == 1       \* single ticks the sweep model's clock makes around a jump
MaxBurstFrames == 62    \* inbound frames of the burst model
MaxBurstSeconds == 3    \* seconds the burst model's clock runs
MaxSweepFrames == 1     \* inbound frames per connection and refill in the sweep model
RouterTokens == 2       \* tokens left to connection 1 when the router model starts
MaxSends == 3           \* send_json calls of one handler run
MaxFanoutIds == 3       \* connection ids generated in the fan-out model
MaxQueued == 2          \* events waiting on one channel in the fan-out model
MaxMails == 2           \* notification mails counted per proposal
MaxTableIds == 3        \* connection ids generated in the two-user registry model
MaxIsolationIds == 2    \* connection ids generated in the isolation model
MaxIsolationQueued == 1 \* events waiting on one channel in the isolation model

(* Program constants *)

MAX_CONNECTIONS_PER_USER == 10
CONNECTION_TIMEOUT_SECONDS == 3600
CONSUMER_MAX_CONNECTIONS_PER_USER == 5
MESSAGE_RATE_LIMIT_COUNT == 60
MESSAGE_RATE_LIMIT_PERIOD == 60

CLOSE_UNAUTHENTICATED == 4001
CLOSE_LIMIT == 4002
CLOSE_ERROR == 4000

----------------------------------------------------------------------------
(* Values *)

Users == {"u1", "u2"}
Anonymous == "anonymous"      \* no scope["user"], or not is_authenticated
Absent == "<absent>"          \* a key a dict does not hold
NoCode == 0                   \* __call__ returned without sending a close frame
NoConn == 0                   \* a connection id that is None or empty

\* users/models.py: is_buyer() is role == USER_ROLES['BUYER']
role == [u \in Users |-> IF u = "u1" THEN "buyer" ELSE "arena_staff"]
is_buyer(u) == role[u] = "buyer"

SubprotocolLists == {{}, {"arena-v1"}, {"graphql-ws"}, {"graphql-ws", "arena-v1"}}

\* REQUEST_GROUP.format(x) and PROPOSAL_GROUP.format(x)
REQUEST_GROUP(x) == <<"request_updates", x>>
PROPOSAL_GROUP(x) == <<"proposal_updates", x>>

Timeout == CONNECTION_TIMEOUT_SECONDS * TicksPerSecond

(* dict helpers: a dict is a function whose domain is its key set *)
Put(d, k, v) == [x \in (DOMAIN d) \cup {k} |-> IF x = k THEN v ELSE d[x]]
Del(d, k) == [x \in (DOMAIN d) \ {k} |-> d[x]]
EmptyDict == [x \in {} |-> 0]

RECURSIVE IndexOf(_, _, _)
\* position of the first occurrence of x in s from position i on, 0 if none
IndexOf(s, x, i) ==
    IF i > Len(s) THEN 0
    ELSE IF s[i] = x THEN i
    ELSE IndexOf(s, x, i + 1)

\* list.remove(x): drops the first occurrence (the caller checks x is in s)
ListRemove(s, x) ==
    LET i == IndexOf(s, x, 1)
    IN  SubSeq(s, 1, i - 1) \o SubSeq(s, i + 1, Len(s))

Range(s) == {s[i] : i \in 1..Len(s)}

Min(a, b) == IF a < b THEN a ELSE b

----------------------------------------------------------------------------
(* RateLimiter(MESSAGE_RATE_LIMIT): a token bucket, full when created.     *)
(* Tokens are counted in 1/TicksPerSecond of a token so that a refill of   *)
(* elapsed_seconds * refill_rate is exact at the clock's resolution.       *)

TokenUnit == TicksPerSecond
BucketCapacity == MESSAGE_RATE_LIMIT_COUNT * TokenUnit

NewBucket(t) == [tokens |-> BucketCapacity, last_refill_at |-> t]

\* tokens = min(capacity, tokens + elapsed_seconds * refill_rate)
Refill(b, t) ==
    [tokens |-> Min(BucketCapacity,
                    b.tokens + ((t - b.last_refill_at) * MESSAGE_RATE_LIMIT_COUNT)
                                   \div MESSAGE_RATE_LIMIT_PERIOD),
     last_refill_at |-> t]

\* allow(): does the refilled bucket hold a whole token
Allowed(b, t) == Refill(b, t).tokens >= TokenUnit

\* the bucket after allow(): a token is taken when one is there
Consume(b, t) ==
    LET r == Refill(b, t)
    IN  IF r.tokens >= TokenUnit
        THEN [r EXCEPT !.tokens = r.tokens - TokenUnit]
        ELSE r

----------------------------------------------------------------------------
(* WebSocketMiddleware *)

Metadata(user_id, t) == [user_id |-> user_id, connected_at |-> t]

\* ArenaConsumer.__init__
NewConsumer(user, t) ==
    [user |-> user,                \* scope["user"] as the middleware saw it
     state |-> "CONNECTING",       \* position of the connection's task
     accepted |-> FALSE,           \* accept() was called
     close_code |-> NoCode,        \* code of the close() the consumer sent
     groups |-> {},                \* self.groups
     metadata_user |-> Absent,     \* self.connection_metadata.get("user_id")
     rate_limiter |-> NewBucket(t)]

\* process_request, lines 116-117: the user already holds the maximum
AtLimit_gt(user_id) ==
    /\ user_id \in DOMAIN user_connections
    /\ Len(user_connections[user_id]) > MAX_CONNECTIONS_PER_USER

AtLimit(user_id) ==
    /\ user_id \in DOMAIN user_connections
    /\ Len(user_connections[user_id]) >= MAX_CONNECTIONS_PER_USER

\* process_request: the reason it returns False, or "accept"
Verdict(subprotocols, user) ==
    IF subprotocols /= {} /\ "arena-v1" \notin subprotocols THEN "protocol"
    ELSE IF user = Anonymous THEN "unauthenticated"
    ELSE IF AtLimit(user) THEN "limit"
    ELSE "accept"

Held(user) ==
    IF user \in DOMAIN user_connections THEN Len(user_connections[user]) ELSE 0

\* process_request returned False: __call__ returns, no frame is sent
Reject(user, cause) ==
    /\ attempt' = [user |-> user, held |-> Held(user), result |-> "rejected",
                   cause |-> cause, close_code |-> NoCode,
                   connection_id |-> NoConn]
    /\ UNCHANGED <<registry, nextId, consumer>>

\* process_request lines 121-148, then __call__ hands the scope to the inner
\* application, which creates the connection's ArenaConsumer
Admit(user) ==
    LET connection_id == nextId + 1
        metadata == Metadata(user, now)
        held == IF user \in DOMAIN user_connections
                THEN user_connections[user] ELSE <<>>
    IN  /\ nextId' = connection_id
        /\ active_connections' = Put(active_connections, connection_id, metadata)
        /\ user_connections' = Put(user_connections, user,
                                   Append(held, connection_id))
        /\ connection_metadata' = Put(connection_metadata, connection_id, metadata)
        /\ consumer' = Put(consumer, connection_id, NewConsumer(user, now))
        /\ attempt' = [user |-> user, held |-> Held(user), result |-> "accepted",
                       cause |-> "accept", close_code |-> NoCode,
                       connection_id |-> connection_id]

process_request(subprotocols, user) ==
    LET verdict == Verdict(subprotocols, user)
    IN  IF verdict = "accept" THEN Admit(user) ELSE Reject(user, verdict)

\* process_disconnect without the early return for an id that is not in
\* active_connections: the cleanup runs and drops the per-user index
process_disconnect_unguarded(connection_id) ==
    IF connection_id = NoConn THEN registry
    ELSE IF connection_id \notin DOMAIN active_connections
    THEN <<active_connections, EmptyDict, connection_metadata>>
    ELSE
      LET user_id == active_connections[connection_id].user_id
          left == ListRemove(user_connections[user_id], connection_id)
          uc == IF left = <<>> THEN Del(user_connections, user_id)
                ELSE Put(user_connections, user_id, left)
      IN  <<Del(active_connections, connection_id), uc,
            Del(connection_metadata, connection_id)>>

\* process_disconnect without user_connections[user_id].remove(connection_id)
process_disconnect_stale_index(connection_id) ==
    IF connection_id = NoConn \/ connection_id \notin DOMAIN active_connections
    THEN registry
    ELSE <<Del(active_connections, connection_id), user_connections,
           Del(connection_metadata, connection_id)>>

\* process_disconnect without the deletion of a list that became empty
process_disconnect_keeps_empty_list(connection_id) ==
    IF connection_id = NoConn \/ connection_id \notin DOMAIN active_connections
    THEN registry
    ELSE
      LET user_id == active_connections[connection_id].user_id
          left == ListRemove(user_connections[user_id], connection_id)
      IN  <<Del(active_connections, connection_id),
            Put(user_connections, user_id, left),
            Del(connection_metadata, connection_id)>>

\* the body of process_disconnect on the tables t = <<active_connections,
\* user_connections, connection_metadata>>: the three tables after the call
Remove(t, connection_id) ==
    IF connection_id = NoConn \/ connection_id \notin DOMAIN t[1]
    THEN t
    ELSE
      LET user_id == t[1][connection_id].user_id
          indexed == user_id \in DOMAIN t[2]
          \* list.remove raises ValueError: the except clause logs, the rest
          \* of the cleanup is skipped
          remove_raises == indexed /\ connection_id \notin Range(t[2][user_id])
          left == ListRemove(t[2][user_id], connection_id)
          uc == IF ~indexed THEN t[2]
                ELSE IF left = <<>> THEN Del(t[2], user_id)
                ELSE Put(t[2], user_id, left)
      IN  IF remove_raises THEN t
          ELSE IF connection_id \notin DOMAIN t[3]
               THEN <<Del(t[1], connection_id), uc, t[3]>>
          ELSE <<Del(t[1], connection_id), uc, Del(t[3], connection_id)>>

\* process_disconnect on the tables of the middleware
process_disconnect(connection_id) == Remove(registry, connection_id)

\* the three tables become those of t
SetRegistry(t) ==
    /\ active_connections' = t[1]
    /\ user_connections' = t[2]
    /\ connection_metadata' = t[3]

RECURSIVE Scan(_, _, _, _)
\* the loop of get_user_connections over the list, from position i on:
\* the connections it returns and those it calls process_disconnect for
Scan(ids, i, live, expired) ==
    IF i > Len(ids) THEN [live |-> live, expired |-> expired]
    ELSE IF ids[i] \notin DOMAIN connection_metadata
         THEN Scan(ids, i + 1, live, expired)
    ELSE IF now - connection_metadata[ids[i]].connected_at > Timeout
         THEN Scan(ids, i + 1, live, Append(expired, ids[i]))
    ELSE Scan(ids, i + 1, Append(live, ids[i]), expired)

\* get_user_connections.  process_disconnect is a coroutine function and the
\* call at line 208 is not awaited: the coroutine object is created and
\* dropped, its body never runs, so the tables are not changed.
get_user_connections(user_id) ==
    IF user_id \notin DOMAIN user_connections
    THEN [live |-> <<>>, expired |-> <<>>]
    ELSE Scan(user_connections[user_id], 1, <<>>, <<>>)

----------------------------------------------------------------------------
(* ArenaConsumer: connect and disconnect *)

SetConsumer(c, r) == consumer' = [consumer EXCEPT ![c] = r]

\* self.close(code=...)
Closed(me, code) == [me EXCEPT !.state = "CLOSED", !.close_code = code]

\* a group_add that returns without adding the channel
GroupAdd_dropped(g, c) == group_members

GroupAdd(g, c) ==
    Put(group_members, g,
        (IF g \in DOMAIN group_members THEN group_members[g] ELSE {}) \cup {c})

RECURSIVE GroupDiscardAll(_, _, _)
\* channel_layer.group_discard(g, c) for every g of gs; a group left empty
\* no longer exists
GroupDiscardAll(members, gs, c) ==
    IF gs = {} THEN members
    ELSE LET g == CHOOSE x \in gs : TRUE
             m == IF g \notin DOMAIN members THEN members
                  ELSE IF members[g] \ {c} = {} THEN Del(members, g)
                  ELSE Put(members, g, members[g] \ {c})
         IN  GroupDiscardAll(m, gs \ {g}, c)

\* The outcomes of WebSocketMiddleware.get_user_connections(user_id) at
\* consumers.py line 108.  The method is called on the class with one
\* argument, so as written the call raises TypeError (user_id is bound to
\* self, the parameter user_id is missing) and connect ends in its except
\* clause.  "list" is the lookup the call stands for, made on the middleware
\* of the process; both outcomes are kept.
Lookups == {"TypeError", "list"}

\* connect.  user: scope["user"] as the consumer sees it, resolved again by
\* the AuthMiddlewareStack that routing.py places inside WebSocketMiddleware.
\* layer_ok: channel_layer.group_add returns (FALSE: it raises).
connect(c, user, lookup, layer_ok) ==
    LET me == consumer[c]
        group_name == REQUEST_GROUP(user)
        opened == [me EXCEPT !.state = "OPEN", !.accepted = TRUE,
                             !.metadata_user = user]
    IN  IF user = Anonymous
        THEN /\ SetConsumer(c, Closed(me, CLOSE_UNAUTHENTICATED))
             /\ UNCHANGED group_members
        ELSE IF lookup = "TypeError"
        THEN /\ SetConsumer(c, Closed(me, CLOSE_ERROR))
             /\ UNCHANGED group_members
        ELSE IF Len(get_user_connections(user).live) >= CONSUMER_MAX_CONNECTIONS_PER_USER
        THEN /\ SetConsumer(c, Closed(me, CLOSE_LIMIT))
             /\ UNCHANGED group_members
        ELSE IF ~is_buyer(user)
        THEN /\ SetConsumer(c, opened)
             /\ UNCHANGED group_members
        ELSE IF layer_ok
        THEN /\ SetConsumer(c, [opened EXCEPT !.groups = @ \cup {group_name}])
             /\ group_members' = GroupAdd(group_name, c)
        ELSE \* group_add raised after accept(): except clause, close(4000)
             /\ SetConsumer(c, Closed(opened, CLOSE_ERROR))
             /\ UNCHANGED group_members

\* wrapped_receive (middleware lines 80-84) on websocket.disconnect:
\* process_disconnect, then the message goes on to the consumer
wrapped_receive(c) ==
    /\ SetRegistry(process_disconnect(c))
    /\ SetConsumer(c, [consumer[c] EXCEPT !.state = "DISCONNECTING"])

\* disconnect.  layer_ok: channel_layer.group_discard returns (FALSE: it
\* raises; the except clause logs and self.groups is not cleared).  The
\* consumer instance ends with the handler.
disconnect(c, layer_ok) ==
    LET me == consumer[c]
    IN  /\ group_members' = IF layer_ok \/ me.groups = {}
                            THEN GroupDiscardAll(group_members, me.groups, c)
                            ELSE group_members
        /\ consumer' = Del(consumer, c)

----------------------------------------------------------------------------
(* ArenaConsumer: inbound frames *)

(* An inbound frame after JSON decoding.  type and the keys of data are    *)
(* Absent when the dict does not hold them.                                *)
Data(proposal_id, action, request_id) ==
    [present |-> TRUE, proposal_id |-> proposal_id, action |-> action,
     request_id |-> request_id, group |-> Absent]
NoData == [present |-> FALSE, proposal_id |-> Absent, action |-> Absent,
           request_id |-> Absent, group |-> Absent]
\* the data of a subscribe or unsubscribe frame: {"group": group}
GroupData(group) == [Data(Absent, Absent, Absent) EXCEPT !.group = group]
Frame(type, data) == [is_dict |-> TRUE, type |-> type, data |-> data]
NotADict == [is_dict |-> FALSE, type |-> Absent, data |-> NoData]

ValidTypes == {"proposal_update", "request_update", "ping"}

\* validate_message, lines 44-56: the ValueError it raises, or "ok"
Validate_no_required_fields(content) ==
    IF ~content.is_dict THEN "Invalid message format"
    ELSE IF content.type \notin ValidTypes THEN "Invalid message type"
    ELSE "ok"

Validate(content) ==
    IF ~content.is_dict THEN "Invalid message format"
    ELSE IF content.type = Absent \/ ~content.data.present
         THEN "Missing required fields"
    ELSE IF content.type \notin ValidTypes THEN "Invalid message type"
    ELSE "ok"

(* What one handler run did: the send_json calls in order (ok: the call    *)
(* returned, the frame went out), the group_send calls that returned, the  *)
(* number of domain-service calls, and whether the handler raised.         *)
Effect(sent, published, calls, raised) ==
    [sent |-> sent, published |-> published, calls |-> calls, raised |-> raised]

(* The environment of one handler run.  sends[i]: the i-th send_json call  *)
(* returns.  svc: the outcome of the domain-service call.  bus: group_send *)
(* returns.                                                                *)
IOs == [sends : [1..MaxSends -> BOOLEAN], svc : {"ok", "error"}, bus : BOOLEAN]

\* every call returns
AllSendsOk == [sends |-> [i \in 1..MaxSends |-> TRUE], svc |-> "ok", bus |-> TRUE]

SendJson(sent, frame, io) ==
    Append(sent, [type |-> frame.type, error |-> frame.error,
                  timestamp |-> frame.timestamp,
                  ok |-> io.sends[Len(sent) + 1]])

\* self.scope.get("connect_time", 0): no code puts connect_time in the scope
scope_connect_time == 0

\* handle_error: logs, sends the error frame; a failure of send_json is
\* caught and logged
handle_error_silent(sent, error_type, io) == sent

handle_error(sent, error_type, io) ==
    SendJson(sent, [type |-> "error", error |-> error_type,
                    timestamp |-> Absent], io)

\* handle_proposal_update that goes on to group_send after the service call
\* raised
handle_proposal_update_publishes(sent, data, user_id, io) ==
    IF data.proposal_id = Absent \/ data.action = Absent
    THEN Effect(handle_error(sent, "proposal_update_error", io), <<>>, 0, FALSE)
    ELSE IF data.action \notin {"accept", "reject"}
    THEN Effect(handle_error(sent, "proposal_update_error", io), <<>>, 0, FALSE)
    ELSE IF ~io.bus
    THEN Effect(handle_error(sent, "proposal_update_error", io), <<>>, 1, FALSE)
    ELSE Effect(IF io.svc = "error"
                THEN handle_error(sent, "proposal_update_error", io) ELSE sent,
                <<[group |-> PROPOSAL_GROUP(data.proposal_id),
                   type |-> "proposal.updated", id |-> data.proposal_id,
                   action |-> data.action, user_id |-> user_id]>>,
                1, FALSE)

\* handle_proposal_update
handle_proposal_update(sent, data, user_id, io) ==
    IF data.proposal_id = Absent \/ data.action = Absent
    THEN Effect(handle_error(sent, "proposal_update_error", io), <<>>, 0, FALSE)
    ELSE IF data.action \notin {"accept", "reject"}
    THEN Effect(handle_error(sent, "proposal_update_error", io), <<>>, 0, FALSE)
    ELSE IF io.svc = "error"
    THEN Effect(handle_error(sent, "proposal_update_error", io), <<>>, 1, FALSE)
    ELSE IF ~io.bus
    THEN Effect(handle_error(sent, "proposal_update_error", io), <<>>, 1, FALSE)
    ELSE Effect(sent,
                <<[group |-> PROPOSAL_GROUP(data.proposal_id),
                   type |-> "proposal.updated", id |-> data.proposal_id,
                   action |-> data.action, user_id |-> user_id]>>,
                1, FALSE)

\* handle_request_update
handle_request_update(sent, data, user_id, io) ==
    IF data.request_id = Absent
    THEN Effect(handle_error(sent, "request_update_error", io), <<>>, 0, FALSE)
    ELSE IF ~io.bus
    THEN Effect(handle_error(sent, "request_update_error", io), <<>>, 0, FALSE)
    ELSE Effect(sent,
                <<[group |-> REQUEST_GROUP(data.request_id),
                   type |-> "request.updated", id |-> data.request_id,
                   action |-> Absent, user_id |-> user_id]>>,
                0, FALSE)

\* handle_ping: a failure of send_json is not caught here
handle_ping(sent, io) ==
    LET out == SendJson(sent, [type |-> "pong", error |-> Absent,
                               timestamp |-> scope_connect_time], io)
    IN  Effect(out, <<>>, 0, ~out[Len(out)].ok)

\* receive_json without the acknowledgement of lines 202-207
Dispatch_no_ack(content, user_id, io) ==
    LET h == IF content.type = "proposal_update"
             THEN handle_proposal_update(<<>>, content.data, user_id, io)
             ELSE IF content.type = "request_update"
             THEN handle_request_update(<<>>, content.data, user_id, io)
             ELSE handle_ping(<<>>, io)
    IN  IF h.raised
        THEN [h EXCEPT !.sent = handle_error(h.sent, "message_processing_error", io),
                       !.raised = FALSE]
        ELSE h

\* receive_json, lines 191-214, once the rate limiter let the frame pass
Dispatch(content, user_id, io) ==
    LET h == IF content.type = "proposal_update"
             THEN handle_proposal_update(<<>>, content.data, user_id, io)
             ELSE IF content.type = "request_update"
             THEN handle_request_update(<<>>, content.data, user_id, io)
             ELSE handle_ping(<<>>, io)
        acked == SendJson(h.sent, [type |-> "ack", error |-> Absent,
                                   timestamp |-> Absent], io)
    IN  IF h.raised
        THEN [h EXCEPT !.sent = handle_error(h.sent, "message_processing_error", io),
                       !.raised = FALSE]
        ELSE IF acked[Len(acked)].ok
        THEN [h EXCEPT !.sent = acked]
        ELSE [h EXCEPT !.sent = handle_error(acked, "message_processing_error", io)]

\* receive_json without the rate-limit check of lines 183-189: a frame is
\* dispatched whether or not the bucket holds a token
Handle_limit_dispatches(content, allowed, user_id, io) ==
    IF Validate(content) /= "ok"
    THEN Effect(handle_error(<<>>, "message_validation_error", io), <<>>, 0, FALSE)
    ELSE Dispatch(content, user_id, io)

\* receive_json under validate_message: what handling content does, given
\* whether the rate limiter allows it
Handle(content, allowed, user_id, io) ==
    IF Validate(content) /= "ok"
    THEN Effect(handle_error(<<>>, "message_validation_error", io), <<>>, 0, FALSE)
    ELSE IF ~allowed
    THEN Effect(handle_error(<<>>, "rate_limit_exceeded", io), <<>>, 0, FALSE)
    ELSE Dispatch(content, user_id, io)

\* the channels of the members of group g
Members(g) == IF g \in DOMAIN group_members THEN group_members[g] ELSE {}

\* the message a group_send call hands to the channel layer
Event(p) == [type |-> p.type, id |-> p.id, action |-> p.action,
             user_id |-> p.user_id]

\* a group_send that puts the events on the channel of every consumer
GroupSend_broadcast(queue, published, i) ==
    LET to == IF published = <<>> THEN {} ELSE DOMAIN consumer
    IN  [c \in (DOMAIN queue) \cup to |->
            (IF c \in DOMAIN queue THEN queue[c] ELSE <<>>)
                \o (IF c \in to
                    THEN [j \in 1..Len(published) |-> Event(published[j])]
                    ELSE <<>>)]

RECURSIVE GroupSend(_, _, _)
\* channel_layer.group_send for the calls of published from position i on:
\* the event is put on the channel of every member of the group
GroupSend(queue, published, i) ==
    IF i > Len(published) THEN queue
    ELSE LET p == published[i]
             to == Members(p.group)
             q == [c \in (DOMAIN queue) \cup to |->
                      (IF c \in DOMAIN queue THEN queue[c] ELSE <<>>)
                          \o (IF c \in to THEN <<Event(p)>> ELSE <<>>)]
         IN  GroupSend(q, published, i + 1)

\* receive_json with its decorator, for the consumer of connection c
receive_json_unmetered(c, content, io) ==
    LET me == consumer[c]
        h == Handle(content, TRUE, me.metadata_user, io)
    IN  /\ UNCHANGED consumer
        /\ channel_queue' = GroupSend(channel_queue, h.published, 1)
        /\ reply' = [conn |-> c, content |-> content,
                     sent |-> h.sent, published |-> h.published,
                     calls |-> h.calls,
                     svc |-> io.svc, bus |-> io.bus]

receive_json(c, content, io) ==
    LET me == consumer[c]
        valid == Validate(content) = "ok"
        allowed == Allowed(me.rate_limiter, now)
        h == Handle(content, allowed, me.metadata_user, io)
    IN  /\ consumer' = IF valid
                       THEN [consumer EXCEPT ![c].rate_limiter = Consume(@, now)]
                       ELSE consumer
        /\ channel_queue' = GroupSend(channel_queue, h.published, 1)
        /\ reply' = [conn |-> c, content |-> content,
                     sent |-> h.sent, published |-> h.published,
                     calls |-> h.calls,
                     svc |-> io.svc, bus |-> io.bus]

NoReply == [conn |-> NoConn, content |-> NotADict,
            sent |-> <<>>, published |-> <<>>, calls |-> 0,
            svc |-> "ok", bus |-> TRUE]

----------------------------------------------------------------------------
(* Proposals: Proposal (proposals/models.py) and ProposalService           *)
(* (proposals/services.py).  A row keeps the stored status, the status of  *)
(* the instance in the cache (Absent: no entry) and the number of          *)
(* notification mails sent for it.                                         *)

DRAFT == "draft"
SUBMITTED == "submitted"
ACCEPTED == "accepted"
REJECTED == "rejected"
ProposalStatuses == {DRAFT, SUBMITTED, ACCEPTED, REJECTED}

\* the members of the enumeration core.constants.ProposalStatus
ProposalStatusMembers ==
    {"PENDING", "SUBMITTED", "ACCEPTED", "REJECTED", "WITHDRAWN"}

ProposalIds == {"p1", "p2"}
UnknownProposal == "p0"

\* the result of a call: what was called for which row, with which argument,
\* the stored status before the call, and the exception that left the call
Outcome(op, target, arg, before, raised, code, message) ==
    [op |-> op, target |-> target, arg |-> arg, before |-> before,
     raised |-> raised, code |-> code, message |-> message]

Returned(op, target, arg, before) ==
    Outcome(op, target, arg, before, "none", Absent, Absent)

NoOutcome == Returned("none", Absent, Absent, Absent)

\* Proposal.save() of an instance whose status attribute is status.  valid:
\* the request is not cancelled, the vendor is active, pricing_details and
\* feature_matrix are dicts.  The status is not looked at.
Proposal_save(id, status, valid) ==
    IF ~valid
    THEN /\ outcome' = Outcome("Proposal.save", id, status, proposals[id].status,
                               "ValidationError", Absent, Absent)
         /\ UNCHANGED proposals
    ELSE /\ outcome' = Returned("Proposal.save", id, status, proposals[id].status)
         /\ proposals' = [proposals EXCEPT ![id].status = status]

\* Proposal.submit().  complete: the required fields, base_price and the
\* feature matrix requirements are there.  The current status is not
\* looked at.
Proposal_submit(id, complete, valid) ==
    IF ~complete \/ ~valid
    THEN /\ outcome' = Outcome("Proposal.submit", id, Absent, proposals[id].status,
                               "ValidationError", Absent, Absent)
         /\ UNCHANGED proposals
    ELSE /\ outcome' = Returned("Proposal.submit", id, Absent, proposals[id].status)
         /\ proposals' = [proposals EXCEPT ![id].status = SUBMITTED]

\* ProposalService.submit_proposal: the exception its except clauses raise
\* for an exception of class exc raised inside the try block.  ProposalError
\* derives from Exception, so the second clause takes it as well.
submit_proposal_except(exc) ==
    IF exc = "DoesNotExist"
    THEN [raised |-> "ProposalError", code |-> "E3001",
          message |-> "Proposal not found"]
    ELSE [raised |-> "SystemError", code |-> "E4002",
          message |-> "Failed to submit proposal"]

\* ProposalService.submit_proposal.  complete, valid: as for Proposal.submit;
\* mail_ok: send_proposal_received returns.  The call runs in
\* transaction.atomic: an exception rolls the row back, not the cache.
submit_proposal(id, complete, valid, mail_ok) ==
    LET before == IF id \in ProposalIds THEN proposals[id].status ELSE Absent
        status == IF proposals[id].cache /= Absent
                  THEN proposals[id].cache ELSE proposals[id].status
        fail(exc) == submit_proposal_except(exc)
        raise(exc) == outcome' = Outcome("submit_proposal", id, Absent, before,
                                         fail(exc).raised, fail(exc).code,
                                         fail(exc).message)
    IN  IF id \notin ProposalIds
        THEN raise("DoesNotExist") /\ UNCHANGED proposals
        ELSE IF "DRAFT" \notin ProposalStatusMembers
        THEN \* ProposalStatus.DRAFT at line 168
             raise("AttributeError") /\ UNCHANGED proposals
        ELSE IF status /= DRAFT
        THEN raise("ProposalError") /\ UNCHANGED proposals
        ELSE IF ~complete \/ ~valid
        THEN raise("ValidationError") /\ UNCHANGED proposals
        ELSE IF ~mail_ok
        THEN /\ raise("Exception")
             /\ proposals' = [proposals EXCEPT ![id].cache = SUBMITTED]
        ELSE /\ outcome' = Returned("submit_proposal", id, Absent, before)
             /\ proposals' = [proposals EXCEPT ![id].status = SUBMITTED,
                                               ![id].cache = SUBMITTED,
                                               ![id].mails = Min(@ + 1, MaxMails)]

----------------------------------------------------------------------------
(* Requests: Request (requests/models.py) and RequestService               *)
(* (requests/services.py).                                                 *)

RequestStatuses == {"draft", "submitted", "in_review", "completed", "cancelled"}

RequestIds == {"r1"}
UnknownRequest == "r0"

\* the attributes of a Request instance: its fields, the reverse relation
\* proposals and the fields of BaseModel
RequestAttributes ==
    {"user", "raw_requirements", "parsed_requirements", "status",
     "matched_vendors", "proposal_count", "expires_at", "matching_criteria",
     "min_required_proposals", "is_anonymized", "data_sensitivity_level",
     "proposals", "id", "created_at", "updated_at", "data_classification",
     "classification_changed_at", "classification_changed_by",
     "is_deleted", "deleted_at", "deleted_by", "soft_deleted_by"}

\* Request.save(): the exception it raises for an instance whose status
\* attribute is status, or "none".  valid: the user is a buyer, the data is
\* not public, the anonymization rule holds.  The status is read only to
\* choose the retention period, after self.tracker (line 229) was
\* evaluated.
Request_save_raises(status, valid) ==
    IF ~valid THEN "ValidationError"
    ELSE IF "tracker" \notin RequestAttributes THEN "AttributeError"
    ELSE "none"

Request_save(id, status, valid) ==
    LET raised == Request_save_raises(status, valid)
    IN  /\ outcome' = Outcome("Request.save", id, status, requests[id].status,
                              raised, Absent, Absent)
        /\ requests' = IF raised = "none"
                       THEN [requests EXCEPT ![id].status = status]
                       ELSE requests

\* RequestService.update_request_status: every exception of get_request and
\* of save becomes a RequestError; the row is written inside
\* transaction.atomic
update_request_status(id, status, valid) ==
    LET raised == IF id \notin RequestIds THEN "RequestError"
                  ELSE Request_save_raises(status, valid)
        before == IF id \in RequestIds THEN requests[id].status ELSE Absent
    IN  /\ outcome' = Outcome("update_request_status", id, status, before,
                              IF raised = "none" THEN "none" ELSE "RequestError",
                              Absent, Absent)
        /\ requests' = IF raised = "none"
                       THEN [requests EXCEPT ![id].status = status]
                       ELSE requests

----------------------------------------------------------------------------
(* Magic links: UserService.verify_magic_link (users/services.py).  The    *)
(* method is synchronous and runs in the worker threads and processes of   *)
(* the web server, which share the cache: another call can run between the *)
(* cache read of line 183 and the cache write of line 188.                 *)

Tokens == {"t1", "t2"}
Callers == {"w1", "w2"}

Idle == [pc |-> "idle", token |-> Absent]

\* jwt.decode(token, settings.JWT_PUBLIC_KEY, ...): the payload, an
\* InvalidTokenError, a payload without email, or a NameError (the module
\* does not import settings)
Decodes == {"payload", "no_email", "InvalidTokenError", "NameError"}

\* verify_magic_link, lines 159-187: the token is decoded and the used-token
\* entry is read
verify_read(k, token, decoded) ==
    LET raise(exc, code, message) ==
            /\ outcome' = Outcome("verify_magic_link", token, k, used_token[token],
                                  exc, code, message)
            /\ UNCHANGED <<used_token, verifier>>
    IN  IF decoded = "NameError"
        THEN raise("NameError", Absent, Absent)
        ELSE IF decoded = "InvalidTokenError"
        THEN raise("AuthenticationError", "E1003", "Invalid or expired magic link")
        ELSE IF decoded = "no_email"
        THEN raise("AuthenticationError", "E1003", "Invalid token payload")
        ELSE IF used_token[token]
        THEN raise("AuthenticationError", "E1003", "Magic link already used")
        ELSE /\ verifier' = [verifier EXCEPT
                                !.calls[k] = [pc |-> "checked", token |-> token]]
             /\ UNCHANGED <<used_token, outcome>>

\* verify_magic_link, lines 188-215: the entry is written, the user is
\* fetched or created, saved and notified, and returned.  user_ok: none of
\* these calls raises.
verify_write(k, user_ok) ==
    LET token == verifier.calls[k].token
    IN  /\ used_token' = [used_token EXCEPT ![token] = TRUE]
        /\ verifier' = [verifier EXCEPT
                           !.calls[k] = Idle,
                           !.logins[token] = IF user_ok THEN @ + 1 ELSE @]
        /\ outcome' = Outcome("verify_magic_link", token, k, used_token[token],
                              IF user_ok THEN "none" ELSE "Exception",
                              Absent, Absent)

----------------------------------------------------------------------------
(* Initial state: the middleware after __init__, no connection yet *)

NoAttempt == [user |-> Anonymous, held |-> 0, result |-> "none",
              cause |-> "none", close_code |-> NoCode, connection_id |-> NoConn]
NoSweep == [user |-> Anonymous, live |-> <<>>, expired |-> <<>>]
NoBurst == [frames |-> 0, first_at |-> 0, late |-> <<>>, limited |-> {}]
NoDelivery == [taken |-> <<>>, delivered |-> <<>>, faulted |-> EmptyDict]

InitGateway ==
    /\ now = 0
    /\ nextId = 0
    /\ active_connections = EmptyDict
    /\ user_connections = EmptyDict
    /\ connection_metadata = EmptyDict
    /\ attempt = NoAttempt
    /\ consumer = EmptyDict
    /\ group_members = EmptyDict
    /\ sweep = NoSweep
    /\ reply = NoReply
    /\ last_activity = EmptyDict
    /\ burst = NoBurst
    /\ channel_queue = EmptyDict
    /\ delivery = NoDelivery

\* the rows of the database and the cache before any call, the requests
\* being in status request_status
InitRows(request_status) ==
    /\ proposals = [id \in ProposalIds |->
                       [status |-> DRAFT, cache |-> Absent, mails |-> 0]]
    /\ requests = [id \in RequestIds |-> [status |-> request_status]]
    /\ outcome = NoOutcome
    /\ used_token = [t \in Tokens |-> FALSE]
    /\ verifier = [calls |-> [k \in Callers |-> Idle],
                   logins |-> [t \in Tokens |-> 0]]

InitBackend == InitRows("draft")

Init == InitGateway /\ InitBackend

----------------------------------------------------------------------------
(* The handshake and teardown of connections: WebSocketMiddleware.__call__ *)
(* around ArenaConsumer.connect and disconnect.                            *)

\* __call__ for a new scope, at most limit connection ids being generated
Request(users, limit) ==
    \E subprotocols \in SubprotocolLists, user \in users \cup {Anonymous} :
        /\ Verdict(subprotocols, user) = "accept" => nextId < limit
        /\ process_request(subprotocols, user)
        /\ UNCHANGED <<now, group_members, sweep, reply, last_activity, burst, fanout, backend>>

\* websocket.connect reaches the consumer
Connect ==
    \E c \in DOMAIN consumer, lookup \in Lookups, layer_ok \in BOOLEAN :
      \E user \in {consumer[c].user, Anonymous} :
        /\ consumer[c].state = "CONNECTING"
        /\ connect(c, user, lookup, layer_ok)
        /\ UNCHANGED <<now, nextId, registry, attempt, sweep, reply,
                       last_activity, burst, fanout, backend>>

\* websocket.disconnect is read through wrapped_receive: the client went
\* away, or the server's close() was carried out
ReceiveDisconnect ==
    \E c \in DOMAIN consumer :
        /\ consumer[c].state \in {"OPEN", "CLOSED"}
        /\ wrapped_receive(c)
        /\ UNCHANGED <<now, nextId, attempt, group_members, sweep, reply,
                       last_activity, burst, fanout, backend>>

\* websocket.disconnect reaches the consumer
Disconnect ==
    \E c \in DOMAIN consumer, layer_ok \in BOOLEAN :
        /\ consumer[c].state = "DISCONNECTING"
        /\ disconnect(c, layer_ok)
        /\ UNCHANGED <<now, nextId, registry, attempt, sweep, reply,
                       last_activity, burst, fanout, backend>>

HandshakeRequest == Request(Users, MaxHandshakes)

Next == HandshakeRequest \/ Connect \/ ReceiveDisconnect \/ Disconnect

Spec == Init /\ [][Next]_vars

----------------------------------------------------------------------------
(* The registry alone: process_request and process_disconnect called in    *)
(* any order, for one user and for scopes that are turned away.            *)

RegistryUsers == {"u1"}

RegistryRequest == Request(RegistryUsers, MaxIds)

RegistryDisconnect ==
    \E connection_id \in 0..MaxIds :
        /\ SetRegistry(process_disconnect(connection_id))
        /\ UNCHANGED <<now, nextId, attempt, consumer, group_members, sweep,
                       reply, last_activity, burst, fanout, backend>>

NextRegistry == RegistryRequest \/ RegistryDisconnect

SpecRegistry == Init /\ [][NextRegistry]_vars

\* the same for two users
TablesRequest == Request(Users, MaxTableIds)

TablesDisconnect ==
    \E connection_id \in 0..MaxTableIds :
        /\ SetRegistry(process_disconnect(connection_id))
        /\ UNCHANGED <<now, nextId, attempt, consumer, group_members, sweep,
                       reply, last_activity, burst, fanout, backend>>

NextTables == TablesRequest \/ TablesDisconnect

SpecTables == Init /\ [][NextTables]_vars

----------------------------------------------------------------------------
(* The timeout sweep: connections are admitted and opened, send frames,    *)
(* time passes, and get_user_connections is called for a user.             *)

Ping == Frame("ping", Data(Absent, Absent, Absent))

\* the time of the latest inbound frame of c, or of its admission
LastActive(c) ==
    IF c \in DOMAIN last_activity THEN last_activity[c]
    ELSE connection_metadata[c].connected_at

SweepRequest == Request(Users, MaxSweepIds)

\* a heartbeat on an open connection
SweepFrame ==
    \E c \in DOMAIN consumer :
        /\ consumer[c].state = "OPEN"
        /\ Refill(consumer[c].rate_limiter, now).tokens
               > BucketCapacity - MaxSweepFrames * TokenUnit
        /\ receive_json(c, Ping, AllSendsOk)
        /\ last_activity' = Put(last_activity, c, now)
        /\ UNCHANGED <<now, nextId, registry, attempt, group_members, sweep, burst,
                       delivery,
                       backend>>

\* the clock moves by one tick, or by one timeout and a second
Jump == Timeout + TicksPerSecond

SweepTick ==
    \E d \in {1, Jump} :
        /\ d = 1 => (now % Jump) < MaxSweepTime
        /\ d = Jump => now < Jump
        /\ now' = now + d
        /\ UNCHANGED <<nextId, registry, attempt, consumer, group_members,
                       sweep, reply, last_activity, burst, fanout, backend>>

\* get_user_connections(user_id) is called: the tables stay as they are
\* (see get_user_connections), the outcome of the call is kept in sweep
Sweep ==
    \E user_id \in Users :
        /\ sweep' = [user |-> user_id,
                     live |-> get_user_connections(user_id).live,
                     expired |-> get_user_connections(user_id).expired]
        /\ UNCHANGED <<now, nextId, registry, attempt, consumer, group_members,
                       reply, last_activity, burst, fanout, backend>>

NextSweep == SweepRequest \/ Connect \/ SweepFrame \/ SweepTick \/ Sweep

SpecSweep == Init /\ [][NextSweep]_vars

----------------------------------------------------------------------------
(* Inbound frames on an open connection.  The initial state is the one the *)
(* handshake reaches once connection 1 (u1, a buyer) and connection 2 (u2) *)
(* were admitted and opened at time 0, and connection 1 has sent frames.   *)

OpenConsumer(user, gs) ==
    [NewConsumer(user, 0) EXCEPT !.state = "OPEN", !.accepted = TRUE,
                                 !.metadata_user = user, !.groups = gs]

\* connections 1 and 2 are open, the bucket of connection 1 holds tokens
RouterState(tokens) ==
    /\ now = 0
    /\ nextId = 2
    /\ active_connections = <<Metadata("u1", 0), Metadata("u2", 0)>>
    /\ user_connections = [u \in Users |-> IF u = "u1" THEN <<1>> ELSE <<2>>]
    /\ connection_metadata = <<Metadata("u1", 0), Metadata("u2", 0)>>
    /\ attempt = [user |-> "u2", held |-> 0, result |-> "accepted",
                  cause |-> "accept", close_code |-> NoCode, connection_id |-> 2]
    /\ consumer = <<[OpenConsumer("u1", {REQUEST_GROUP("u1")})
                        EXCEPT !.rate_limiter.tokens = tokens],
                    OpenConsumer("u2", {})>>
    /\ group_members = [g \in {REQUEST_GROUP("u1")} |-> {1}]
    /\ sweep = NoSweep
    /\ reply = NoReply
    /\ last_activity = EmptyDict
    /\ burst = NoBurst
    /\ channel_queue = EmptyDict
    /\ delivery = NoDelivery
    /\ InitBackend

\* connection 1 has used all but RouterTokens tokens during second 0
InitRouter == RouterState(RouterTokens * TokenUnit)

\* connection 1 has not sent a frame yet
InitBucket == RouterState(BucketCapacity)

Frames ==
    {NotADict,
     Frame(Absent, NoData),
     Frame(Absent, Data(Absent, Absent, Absent)),
     Frame("ping", NoData),
     Frame("ping", Data(Absent, Absent, Absent)),
     Frame("subscribe", GroupData("proposal:123")),
     Frame("unsubscribe", GroupData("proposal:999")),
     Frame("proposal_update", Data("p1", "accept", Absent)),
     Frame("proposal_update", Data("p1", "archive", Absent)),
     Frame("proposal_update", Data("p1", Absent, Absent)),
     Frame("request_update", Data(Absent, Absent, "r1")),
     Frame("request_update", Data(Absent, Absent, Absent))}

Senders == {1}

RouterFrame ==
    \E c \in Senders \cap DOMAIN consumer, content \in Frames, io \in IOs :
        /\ consumer[c].state = "OPEN"
        /\ receive_json(c, content, io)
        /\ UNCHANGED <<now, nextId, registry, attempt, group_members, sweep,
                       last_activity, burst, delivery,
                       backend>>

NextRouter == RouterFrame \/ ReceiveDisconnect \/ Disconnect

SpecRouter == InitRouter /\ [][NextRouter]_vars

----------------------------------------------------------------------------
(* A burst of valid frames on connection 1 while the clock runs *)

BurstContents ==
    {Ping,
     Frame("request_update", Data(Absent, Absent, "r1")),
     Frame("proposal_update", Data("p1", "accept", Absent))}

\* the rate limiter's answer: the first frame sent is its error
RateLimited(r) ==
    /\ r.sent /= <<>>
    /\ r.sent[1].type = "error"
    /\ r.sent[1].error = "rate_limit_exceeded"

BurstFrame ==
    \E content \in BurstContents :
        /\ consumer[1].state = "OPEN"
        /\ burst.frames < MaxBurstFrames
        /\ receive_json(1, content, AllSendsOk)
        /\ burst' = [frames |-> burst.frames + 1,
                     first_at |-> IF burst.frames = 0 THEN now ELSE burst.first_at,
                     late |-> IF burst.frames >= MESSAGE_RATE_LIMIT_COUNT
                              THEN Append(burst.late, now) ELSE burst.late,
                     limited |-> IF RateLimited(reply')
                                 THEN burst.limited \cup {burst.frames + 1}
                                 ELSE burst.limited]
        /\ UNCHANGED <<now, nextId, registry, attempt, group_members, sweep,
                       last_activity, delivery,
                       backend>>

BurstTick ==
    /\ now < MaxBurstSeconds * TicksPerSecond
    /\ now' = now + 1
    /\ UNCHANGED <<nextId, registry, attempt, consumer, group_members, sweep,
                   reply, last_activity, burst, fanout, backend>>

NextBurst == BurstFrame \/ BurstTick

SpecBucket == InitBucket /\ [][NextBurst]_vars

----------------------------------------------------------------------------
(* Fan-out: events published with group_send are taken from the channel of *)
(* each member by that member's consumer.                                  *)

\* the methods an ArenaConsumer instance has: those of consumers.py and the
\* websocket_* handlers of its base class
HandlerNames ==
    {"websocket_connect", "websocket_receive", "websocket_disconnect",
     "connect", "disconnect", "receive_json", "handle_proposal_update",
     "handle_request_update", "handle_ping", "handle_error"}

\* the method a consumer dispatches a channel-layer message to: the type
\* with "." replaced by "_"
get_handler_name ==
    [t \in {"proposal.updated", "request.updated"} |->
        IF t = "proposal.updated" THEN "proposal_updated" ELSE "request_updated"]

\* The consumer of c takes the next event from its channel and dispatches
\* it.  With a handler method the event is handed to it.  Without one the
\* dispatch raises ValueError out of the consumer: WebSocketMiddleware.__call__
\* (lines 88-91) calls process_disconnect and re-raises, no close frame is
\* sent by the application, and the consumer ends without disconnect(), so
\* no group_discard is made.
dispatch(c) ==
    LET e == Head(channel_queue[c])
        taken == Append(delivery.taken, [conn |-> c, event |-> e])
    IN  /\ channel_queue' = [channel_queue EXCEPT ![c] = Tail(@)]
        /\ IF get_handler_name[e.type] \in HandlerNames
           THEN /\ delivery' = [delivery EXCEPT
                                   !.taken = taken,
                                   !.delivered = Append(@, [conn |-> c, event |-> e])]
                /\ UNCHANGED <<registry, consumer>>
           ELSE /\ delivery' = [delivery EXCEPT
                                   !.taken = taken,
                                   !.faulted = Put(@, c, NoCode)]
                /\ SetRegistry(process_disconnect(c))
                /\ consumer' = Del(consumer, c)

FanoutUsers == {"u1"}

FanoutRequest == Request(FanoutUsers, MaxFanoutIds)

\* an update for the request whose group the buyer's connections are in
FanoutContent == Frame("request_update", Data(Absent, Absent, "u1"))

FanoutFrame ==
    \E c \in DOMAIN consumer :
        /\ consumer[c].state = "OPEN"
        /\ \A m \in DOMAIN channel_queue : Len(channel_queue[m]) < MaxQueued
        /\ receive_json(c, FanoutContent, AllSendsOk)
        /\ UNCHANGED <<now, nextId, registry, attempt, group_members, sweep,
                       last_activity, burst, delivery,
                       backend>>

Deliver ==
    \E c \in (DOMAIN channel_queue) \cap (DOMAIN consumer) :
        /\ consumer[c].state = "OPEN"
        /\ channel_queue[c] /= <<>>
        /\ dispatch(c)
        /\ UNCHANGED <<now, nextId, attempt, group_members, sweep, reply,
                       last_activity, burst, backend>>

NextFanout == FanoutRequest \/ Connect \/ FanoutFrame \/ Deliver

SpecFanout == Init /\ [][NextFanout]_vars

----------------------------------------------------------------------------
(* Isolation of groups: a buyer (u1) and a member of staff (u2) connect,   *)
(* publish updates of the requests u1 and u2, take events and disconnect.  *)

\* __call__ for a new scope of an authenticated user that offers arena-v1
IsolationRequest ==
    \E user \in Users :
        /\ nextId < MaxIsolationIds
        /\ process_request({"arena-v1"}, user)
        /\ UNCHANGED <<now, group_members, sweep, reply, last_activity, burst,
                       fanout, backend>>

IsolationContents ==
    {Frame("request_update", Data(Absent, Absent, "u1")),
     Frame("request_update", Data(Absent, Absent, "u2"))}

IsolationFrame ==
    \E c \in DOMAIN consumer, content \in IsolationContents :
        /\ consumer[c].state = "OPEN"
        /\ \A m \in DOMAIN channel_queue :
               Len(channel_queue[m]) < MaxIsolationQueued
        /\ receive_json_unmetered(c, content, AllSendsOk)
        /\ UNCHANGED <<now, nextId, registry, attempt, group_members, sweep,
                       last_activity, burst, delivery, backend>>

NextIsolation ==
    IsolationRequest \/ Connect \/ IsolationFrame \/ Deliver
        \/ ReceiveDisconnect \/ Disconnect

SpecIsolation == Init /\ [][NextIsolation]_vars

----------------------------------------------------------------------------
(* The status of proposals and requests: the model methods and the service *)
(* methods called in any order.  The request rows start in any status of   *)
(* the enumeration (rows written by fixtures and migrations, which do not  *)
(* call Request.save).                                                     *)

InitLifecycle == InitGateway /\ \E status \in RequestStatuses : InitRows(status)

ProposalSave ==
    \E id \in ProposalIds, status \in ProposalStatuses, valid \in BOOLEAN :
        /\ Proposal_save(id, status, valid)
        /\ UNCHANGED <<gateway, requests, used_token, verifier>>

ProposalSubmit ==
    \E id \in ProposalIds, complete \in BOOLEAN, valid \in BOOLEAN :
        /\ Proposal_submit(id, complete, valid)
        /\ UNCHANGED <<gateway, requests, used_token, verifier>>

SubmitProposal ==
    \E id \in ProposalIds \cup {UnknownProposal},
       complete \in BOOLEAN, valid \in BOOLEAN, mail_ok \in BOOLEAN :
        /\ submit_proposal(id, complete, valid, mail_ok)
        /\ UNCHANGED <<gateway, requests, used_token, verifier>>

RequestSave ==
    \E id \in RequestIds, status \in RequestStatuses, valid \in BOOLEAN :
        /\ Request_save(id, status, valid)
        /\ UNCHANGED <<gateway, proposals, used_token, verifier>>

UpdateRequestStatus ==
    \E id \in RequestIds \cup {UnknownRequest},
       status \in RequestStatuses \cup {"invalid_status"}, valid \in BOOLEAN :
        /\ update_request_status(id, status, valid)
        /\ UNCHANGED <<gateway, proposals, used_token, verifier>>

NextLifecycle ==
    ProposalSave \/ ProposalSubmit \/ SubmitProposal \/ RequestSave
        \/ UpdateRequestStatus

SpecLifecycle == InitLifecycle /\ [][NextLifecycle]_vars

----------------------------------------------------------------------------
(* Magic links verified by the workers of the web server *)

VerifyRead ==
    \E k \in Callers, token \in Tokens, decoded \in Decodes :
        /\ verifier.calls[k].pc = "idle"
        /\ verify_read(k, token, decoded)
        /\ UNCHANGED <<gateway, proposals, requests>>

VerifyWrite ==
    \E k \in Callers, user_ok \in BOOLEAN :
        /\ verifier.calls[k].pc = "checked"
        /\ verify_write(k, user_ok)
        /\ UNCHANGED <<gateway, proposals, requests>>

NextMagicLink == VerifyRead \/ VerifyWrite

SpecMagicLink == Init /\ [][NextMagicLink]_vars

----------------------------------------------------------------------------
(* Properties *)

RegisteredOf(u) ==
    {c \in DOMAIN active_connections : active_connections[c].user_id = u}

Indexed == UNION {Range(user_connections[u]) : u \in DOMAIN user_connections}

\* C1: no user ever holds more than MAX_CONNECTIONS_PER_USER registered
\* connections, in the per-user index or in the connection table, however
\* the process_request calls for that user interleave.
C1_CapNeverExceeded ==
    \A u \in Users :
        /\ Held(u) <= MAX_CONNECTIONS_PER_USER
        /\ Cardinality(RegisteredOf(u)) <= MAX_CONNECTIONS_PER_USER

\* a user holds the maximum and a further process_request was turned away
C1_AtCapRejected ==
    /\ attempt.result = "rejected"
    /\ attempt.cause = "limit"
    /\ Held(attempt.user) = MAX_CONNECTIONS_PER_USER

\* C2: the attempt of a user who already holds 5 registered connections is
\* rejected with close code 4002, by the middleware or by connect before it
\* accepts, and the registry does not hold the attempt's connection.
C2_SixthAttemptRejected ==
    attempt.held = CONSUMER_MAX_CONNECTIONS_PER_USER =>
        /\ attempt.connection_id \notin DOMAIN active_connections
        /\ attempt.connection_id \notin DOMAIN connection_metadata
        /\ attempt.connection_id \notin Indexed
        /\ \/ attempt.result = "rejected" /\ attempt.close_code = CLOSE_LIMIT
           \/ /\ attempt.connection_id \in DOMAIN consumer
              /\ ~consumer[attempt.connection_id].accepted
              /\ consumer[attempt.connection_id].close_code \in {NoCode, CLOSE_LIMIT}

\* C3: a connection whose removal is complete (process_disconnect ran and
\* the consumer's disconnect returned) is a member of no group.
C3_RemovedInNoGroup ==
    \A c \in 1..nextId :
        c \notin DOMAIN consumer =>
            \A g \in DOMAIN group_members : c \notin group_members[g]

\* the connections of u that have been idle for more than a timeout and a second
IdleOf(u) ==
    {c \in RegisteredOf(u) : now - LastActive(c) > Timeout + TicksPerSecond}

\* C4: a sweep for a user removes each of the user's connections that has
\* been idle for more than CONNECTION_TIMEOUT + 1 s from the registry, and
\* the user's count goes down by one for each of them.
C4_SweepRemovesIdle ==
    [][sweep' /= sweep =>
          /\ \A c \in IdleOf(sweep'.user) :
                 /\ c \notin DOMAIN active_connections'
                 /\ c \notin DOMAIN connection_metadata'
          /\ IdleOf(sweep'.user) /= {} =>
                 /\ sweep'.user \in DOMAIN user_connections
                 /\ (IF sweep'.user \in DOMAIN user_connections'
                      THEN Len(user_connections'[sweep'.user]) ELSE 0)
                    = Len(user_connections[sweep'.user])
                        - Cardinality(IdleOf(sweep'.user))]_vars

\* C5: a sweep never times out a connection that received a frame less than
\* CONNECTION_TIMEOUT ago: it keeps it among the live connections, does not
\* call process_disconnect for it and leaves it registered.
C5_ActiveNeverTimedOut ==
    [][sweep' /= sweep =>
          \A c \in RegisteredOf(sweep'.user) :
              now - LastActive(c) < Timeout =>
                  /\ c \in Range(sweep'.live)
                  /\ c \notin Range(sweep'.expired)
                  /\ c \in DOMAIN active_connections']_vars

\* C6: a connection attempt that ended in rejection left nothing in the
\* registry: a scope the middleware turned away generated no connection id,
\* and a connection that connect closed before accepting it is in none of
\* the three tables.
C6_RejectedLeavesNoTrace ==
    /\ attempt.result = "rejected" => attempt.connection_id = NoConn
    /\ \A c \in DOMAIN consumer :
           (consumer[c].state = "CLOSED" /\ ~consumer[c].accepted) =>
               /\ c \notin DOMAIN active_connections
               /\ c \notin DOMAIN connection_metadata
               /\ c \notin Indexed

\* C7: every rejected handshake was closed with the code of its cause: 4001
\* unauthenticated, 4002 at the limit, 4000 internal error, and for a
\* protocol mismatch a close code that is none of these.
C7_CloseCodePerCause ==
    /\ attempt.result = "rejected" =>
           /\ attempt.cause = "unauthenticated" => attempt.close_code = CLOSE_UNAUTHENTICATED
           /\ attempt.cause = "limit" => attempt.close_code = CLOSE_LIMIT
           /\ attempt.cause = "protocol" =>
                  attempt.close_code \notin {NoCode, CLOSE_UNAUTHENTICATED,
                                             CLOSE_LIMIT, CLOSE_ERROR}
    /\ \A c \in DOMAIN consumer :
           (consumer[c].state = "CLOSED" /\ ~consumer[c].accepted) =>
               consumer[c].close_code \in {CLOSE_UNAUTHENTICATED, CLOSE_LIMIT, CLOSE_ERROR}

\* the first MESSAGE_RATE_LIMIT_COUNT + 1 frames arrived within one second
BurstWithinOneSecond ==
    /\ burst.frames > MESSAGE_RATE_LIMIT_COUNT
    /\ burst.late[1] - burst.first_at < TicksPerSecond

NoType(content) == content.is_dict /\ content.type = Absent

ValidationError(r) ==
    /\ Len(r.sent) = 1
    /\ r.sent[1].type = "error"
    /\ r.sent[1].error = "message_validation_error"

\* C9: a frame without a type is answered with exactly one frame, an error,
\* on its own connection; handling it publishes nothing, calls no service and
\* changes neither the registry, nor the consumers (state OPEN, groups, rate
\* limiter), nor the groups; and a valid frame that follows it on that
\* connection while a token is left is dispatched to its handler.
C9_NoTypeAnsweredWithError ==
    /\ [](reply.conn /= NoConn /\ NoType(reply.content) =>
             /\ ValidationError(reply)
             /\ reply.published = <<>>
             /\ reply.calls = 0)
    /\ [][(reply' /= reply /\ NoType(reply'.content)) =>
             /\ UNCHANGED <<registry, consumer, group_members>>
             /\ consumer[reply'.conn].state = "OPEN"]_vars
    /\ [][(/\ reply' /= reply
           /\ reply.conn = reply'.conn
           /\ NoType(reply.content)
           /\ Validate(reply'.content) = "ok"
           /\ Allowed(consumer[reply'.conn].rate_limiter, now)) =>
             /\ reply'.sent /= <<>>
             /\ reply'.sent[1].error
                    \notin {"message_validation_error", "rate_limit_exceeded"}]_vars

\* {"foo": "bar"} was answered with an error frame that went out, and the
\* connection is open
C9_FooBarAnswered ==
    /\ reply.conn = 1
    /\ reply.content = Frame(Absent, NoData)
    /\ ValidationError(reply)
    /\ reply.sent[1].ok
    /\ 1 \in DOMAIN consumer
    /\ consumer[1].state = "OPEN"

ResponseTypes == {"ack", "pong", "error"}

Delivered(r) == {i \in 1..Len(r.sent) : r.sent[i].ok}

SentTypes(r) == {r.sent[i].type : i \in 1..Len(r.sent)}

StillOpen(c) == c \in DOMAIN consumer /\ consumer[c].state = "OPEN"

\* C11: a subscribe frame for group "proposal:123" on an open connection is
\* answered with an ack and with no error frame, and while the connection
\* stays open it is a member of that group, so that events later published
\* to the group reach it.
C11_SubscribeAckedAndJoined ==
    (reply.conn /= NoConn /\ reply.content.type = "subscribe") =>
        /\ "ack" \in SentTypes(reply)
        /\ "error" \notin SentTypes(reply)
        /\ StillOpen(reply.conn) =>
               reply.conn \in Members(reply.content.data.group)

\* C12: an unsubscribe frame for a group the connection never joined is
\* answered without an error frame, and handling it changes neither the
\* groups, nor the consumer's own set of groups, nor the registry.
C12_UnsubscribeNotAnError ==
    /\ [](reply.conn /= NoConn /\ reply.content.type = "unsubscribe" =>
             "error" \notin SentTypes(reply))
    /\ [][(reply' /= reply /\ reply'.content.type = "unsubscribe") =>
             UNCHANGED <<registry, group_members, consumer>>]_vars

\* C13: when a group has exactly 3 subscribed connections, every subscriber
\* that took a published event from its channel was delivered that event,
\* once and unmodified: the deliveries are the events taken, one for one.
C13_ThreeLocalDeliveries ==
    \A g \in DOMAIN group_members :
        Cardinality(group_members[g]) = 3 =>
            delivery.delivered = delivery.taken

Unknown(c) == c = NoConn \/ c \notin DOMAIN active_connections

\* C14: process_disconnect for an id that is not registered (empty, never
\* admitted or already removed) leaves the connection table, the per-user
\* index and the metadata table as they are; and running process_disconnect
\* a second time for an id leaves the tables as the first run left them.
C14_RemoveIdempotent ==
    \A c \in 0..MaxIds :
        /\ Unknown(c) => process_disconnect(c) = registry
        /\ Remove(process_disconnect(c), c) = process_disconnect(c)

\* connection 1 was removed while connection 2 is registered, and an id
\* that was never admitted exists
C14_RemovedAndNeverAdmitted ==
    /\ nextId = 2
    /\ 1 \notin DOMAIN active_connections
    /\ 2 \in DOMAIN active_connections
    /\ Held("u1") = 1

\* C15: every connection id listed in the per-user index is in the
\* connection table, and the index lists at most MAX_CONNECTIONS_PER_USER
\* ids for each user.
C15_IndexWithinRegistry ==
    /\ Indexed \subseteq DOMAIN active_connections
    /\ \A u \in DOMAIN user_connections :
           Len(user_connections[u]) <= MAX_CONNECTIONS_PER_USER

\* a user holds the maximum after one of its connections was removed and a
\* further one admitted
C15_FullAfterRemoval ==
    /\ Held("u1") = MAX_CONNECTIONS_PER_USER
    /\ nextId = MAX_CONNECTIONS_PER_USER + 1
    /\ Cardinality(DOMAIN active_connections) = MAX_CONNECTIONS_PER_USER

InNoGroup(c) == \A g \in DOMAIN group_members : c \notin group_members[g]

Unregistered(c) ==
    /\ c \notin DOMAIN active_connections
    /\ c \notin DOMAIN connection_metadata
    /\ c \notin Indexed

\* the connections whose consumer has ended
Ended == {c \in 1..nextId : c \notin DOMAIN consumer}

\* C16: every group in a consumer's self.groups is a group of the channel
\* layer whose members include the consumer's channel, also after a
\* group_add that raised in connect or a group_discard that raised in
\* disconnect.
C16_GroupsWithinMembership ==
    \A c \in DOMAIN consumer :
        \A g \in consumer[c].groups : c \in Members(g)

\* one connection is open and in its group, and one was closed because its
\* group_add raised
C16_AddedAndAddFailed ==
    \E a, b \in 1..nextId :
        /\ a \in DOMAIN consumer /\ consumer[a].groups /= {}
        /\ b \in DOMAIN consumer /\ consumer[b].accepted
        /\ consumer[b].close_code = CLOSE_ERROR /\ consumer[b].groups = {}

\* position of a consumer's task in the lifecycle
LifecycleRank ==
    [st \in {"CONNECTING", "OPEN", "CLOSED", "DISCONNECTING"} |->
        IF st = "CONNECTING" THEN 1 ELSE IF st = "OPEN" THEN 2
        ELSE IF st = "CLOSED" THEN 3 ELSE 4]

\* C17: a connection only moves forward (connecting, open, closing, ended);
\* it becomes open only from connecting, for an authenticated user and while
\* it is in the registry; it ends only after process_disconnect has run for
\* it; an ended connection never comes back, is in none of the registry's
\* tables and is a member of no group.
C17_LifecycleForward ==
    /\ [](\A c \in Ended : Unregistered(c) /\ InNoGroup(c))
    /\ [][\A c \in DOMAIN consumer :
             IF c \in DOMAIN consumer'
             THEN /\ LifecycleRank[consumer[c].state]
                       <= LifecycleRank[consumer'[c].state]
                  /\ (consumer[c].state /= "OPEN" /\ consumer'[c].state = "OPEN") =>
                         /\ consumer[c].state = "CONNECTING"
                         /\ consumer'[c].metadata_user \in Users
                         /\ c \in DOMAIN active_connections
             ELSE /\ consumer[c].state = "DISCONNECTING"
                  /\ Unregistered(c)]_vars
    /\ [][\A c \in Ended : c \notin DOMAIN consumer']_vars

\* C18: a connection whose consumer raised an unexpected exception was
\* closed with code 4000, is in none of the registry's tables and is a
\* member of no group.
C18_FaultClosedAndCleaned ==
    \A c \in DOMAIN delivery.faulted :
        /\ delivery.faulted[c] = CLOSE_ERROR
        /\ Unregistered(c)
        /\ InNoGroup(c)

\* a frame is handled on connection 1 in this step of the burst
FrameStep == burst'.frames /= burst.frames

\* C19: a ping that arrives while the bucket holds a token is answered first
\* with a pong frame whose timestamp is the server's time of that moment, is
\* followed by no error frame, makes no domain-service call and no
\* group_send, and takes exactly one token from the bucket.
C19_PingAnsweredWithPong ==
    [][(/\ FrameStep
        /\ reply'.content = Ping
        /\ Allowed(consumer[1].rate_limiter, now)) =>
            /\ reply'.sent[1].type = "pong"
            /\ reply'.sent[1].timestamp = now
            /\ "error" \notin SentTypes(reply')
            /\ reply'.calls = 0
            /\ reply'.published = <<>>
            /\ consumer'[1].rate_limiter.tokens
                   = Refill(consumer[1].rate_limiter, now).tokens - TokenUnit]_vars

\* C20: a valid frame that arrives while the bucket holds no token is
\* answered with one rate_limit_exceeded error frame on its own connection
\* and nothing else happens: no domain-service call, no group_send, no event
\* on any channel, no group changes, the connection stays open and the
\* bucket loses nothing; a frame handled while a token is there is not
\* refused and is handled once.
C20_RefusedFrameDropped ==
    [][FrameStep =>
          IF Allowed(consumer[1].rate_limiter, now)
          THEN /\ ~RateLimited(reply')
               /\ reply'.calls <= 1
               /\ Len(reply'.published) <= 1
          ELSE /\ reply'.conn = 1
               /\ Len(reply'.sent) = 1
               /\ RateLimited(reply')
               /\ reply'.calls = 0
               /\ reply'.published = <<>>
               /\ UNCHANGED <<channel_queue, group_members, registry>>
               /\ consumer'[1].state = "OPEN"
               /\ consumer'[1].rate_limiter.tokens
                      = Refill(consumer[1].rate_limiter, now).tokens]_vars

\* a proposal_update was refused for want of a token and, once the bucket
\* had refilled, the next proposal_update was accepted and acknowledged
C20_AcceptedAfterRefusal ==
    /\ burst.limited /= {}
    /\ burst.frames \notin burst.limited
    /\ (burst.frames - 1) \in burst.limited
    /\ reply.content.type = "proposal_update"
    /\ reply.calls = 1
    /\ "ack" \in SentTypes(reply)
    /\ consumer[1].state = "OPEN"

\* the latest frame passed validate_message and the rate limiter
Dispatched(r) ==
    /\ r.conn /= NoConn
    /\ Validate(r.content) = "ok"
    /\ ~RateLimited(r)

\* the latest frame made handle_proposal_update call the domain service
ProposalAction(r) ==
    /\ Dispatched(r)
    /\ r.content.type = "proposal_update"
    /\ r.content.data.proposal_id /= Absent
    /\ r.content.data.action \in {"accept", "reject"}

\* the latest frame made its handler call group_send
PublishAttempted(r) ==
    \/ ProposalAction(r) /\ r.svc = "ok"
    \/ /\ Dispatched(r)
       /\ r.content.type = "request_update"
       /\ r.content.data.request_id /= Absent

\* C21: when the domain-service call of a proposal_update raises, the first
\* frame sent to the originating connection is a proposal_update_error error
\* frame, the service was called once, no group_send was made, no event was
\* put on any channel, and the connection is still open after the handler.
C21_ServiceFailureSurfaced ==
    /\ []((ProposalAction(reply) /\ reply.svc = "error") =>
             /\ reply.sent[1].type = "error"
             /\ reply.sent[1].error = "proposal_update_error"
             /\ reply.calls = 1
             /\ reply.published = <<>>)
    /\ [][(reply' /= reply /\ ProposalAction(reply') /\ reply'.svc = "error") =>
             /\ consumer'[reply'.conn].state = "OPEN"
             /\ UNCHANGED <<channel_queue, group_members, registry>>]_vars

\* accept_proposal raised for a proposal_update of connection 1, the error
\* frame went out and the connection is open
C21_AcceptFailedErrorSent ==
    /\ ProposalAction(reply)
    /\ reply.content.data.action = "accept"
    /\ reply.svc = "error"
    /\ reply.sent[1].type = "error"
    /\ reply.sent[1].ok
    /\ StillOpen(reply.conn)

\* C22: when group_send raises, the failure is surfaced as an error frame
\* and the frame that triggered the publish is not acknowledged: no ack
\* frame is sent for it.
C22_BusFailureLoud ==
    (PublishAttempted(reply) /\ ~reply.bus) =>
        /\ "error" \in SentTypes(reply)
        /\ "ack" \notin SentTypes(reply)

\* C27: no inbound frame is answered with both an error frame and an ack
\* frame that went out.
C27_ErrorNeverAcked ==
    reply.conn /= NoConn =>
        ~ \E i, j \in Delivered(reply) :
              /\ reply.sent[i].type = "error"
              /\ reply.sent[j].type = "ack"

\* C23: however the sweeps and the admissions of a user interleave, the
\* user's count is the number of its connections in the connection table,
\* no connection the latest sweep timed out is left in the per-user index,
\* and the connection admitted last is in the index unless a sweep timed it
\* out.
C23_SweepAdmitConsistent ==
    /\ \A u \in Users : Held(u) = Cardinality(RegisteredOf(u))
    /\ \A c \in Range(sweep.expired) : c \notin Indexed
    /\ attempt.result = "accepted" =>
           \/ attempt.connection_id \in Indexed
           \/ attempt.connection_id \in Range(sweep.expired)

\* C24: submit_proposal on a proposal whose status is not draft raises
\* ProposalError E3001 "Only draft proposals can be submitted" and leaves the
\* status, the cache and the mails of every proposal unchanged; and only a
\* draft proposal becomes submitted through submit_proposal.
C24_NonDraftSubmitRefused ==
    [][outcome'.op = "submit_proposal" /\ outcome' /= outcome
         => /\ outcome'.before \in ProposalStatuses \ {DRAFT}
                => /\ outcome'.raised = "ProposalError"
                   /\ outcome'.code = "E3001"
                   /\ outcome'.message = "Only draft proposals can be submitted"
                   /\ proposals' = proposals
            /\ \A id \in ProposalIds :
                   proposals'[id].status = SUBMITTED /\ proposals[id].status /= SUBMITTED
                       => proposals[id].status = DRAFT]_vars

\* C25: once a proposal is submitted its status is never draft again, and a
\* save that sets the status of a submitted proposal to draft raises
\* ValidationError.
C25_NeverBackToDraft ==
    /\ [][\A id \in ProposalIds :
             proposals[id].status = SUBMITTED => proposals'[id].status /= DRAFT]_vars
    /\ [](outcome.op = "Proposal.save" /\ outcome.before = SUBMITTED
             /\ outcome.arg = DRAFT
           => outcome.raised = "ValidationError")

\* C26: a valid save that moves a request from draft to submitted or from
\* submitted to in_review returns, a save that moves an in_review request
\* to draft raises ValidationError, and update_request_status with a value
\* outside the enumeration raises RequestError and leaves the row unchanged.
C26_RequestLifecycle ==
    /\ [][/\ outcome'.op = "Request.save" /\ outcome' /= outcome
            /\ <<outcome'.before, outcome'.arg>> \in
                   {<<"draft", "submitted">>, <<"submitted", "in_review">>}
            /\ outcome'.raised /= "ValidationError"
          => /\ outcome'.raised = "none"
             /\ requests'[outcome'.target].status = outcome'.arg]_vars
    /\ [](outcome.op = "Request.save" /\ outcome.before = "in_review"
             /\ outcome.arg = "draft"
           => outcome.raised = "ValidationError")
    /\ [][/\ outcome'.op = "update_request_status" /\ outcome' /= outcome
            /\ outcome'.arg \notin RequestStatuses
          => outcome'.raised = "RequestError" /\ requests' = requests]_vars

\* C30: for every token at most one verify_magic_link call returns a user.
C30_TokenAuthenticatesOnce ==
    \A token \in Tokens : verifier.logins[token] <= 1

\* the group an event was published to (consumers.py lines 240-248, 271-279)
GroupOf(e) ==
    IF e.type = "request.updated" THEN REQUEST_GROUP(e.id)
    ELSE PROPOSAL_GROUP(e.id)

QueueLen(queue, c) == IF c \in DOMAIN queue THEN Len(queue[c]) ELSE 0

\* C28: an event is put only on the channels of the members of the group it
\* was published to; a consumer that takes an event from its channel is
\* open and a member of the event's group at that moment; and a consumer is
\* a member only of the groups it was added to.  Hence no connection
\* receives an event of a group it was not added to, and a disconnected
\* connection takes no event.
C28_OnlyMembersReceive ==
    /\ [][\A c \in DOMAIN channel_queue' :
             QueueLen(channel_queue', c) > QueueLen(channel_queue, c) =>
                 \E i \in DOMAIN reply'.published :
                     c \in Members(reply'.published[i].group)]_vars
    /\ [][Len(delivery'.taken) > Len(delivery.taken) =>
             LET t == delivery'.taken[Len(delivery'.taken)]
             IN  /\ t.conn \in DOMAIN consumer
                 /\ consumer[t.conn].state = "OPEN"
                 /\ GroupOf(t.event) \in consumer[t.conn].groups
                 /\ t.conn \in Members(GroupOf(t.event))]_vars
    /\ [](\A c \in DOMAIN consumer, g \in DOMAIN group_members :
             c \in group_members[g] => g \in consumer[c].groups)

\* a member took an event of its group while an open connection that is in
\* no group was handed nothing
C28_MemberTookOutsiderDidNot ==
    /\ delivery.taken /= <<>>
    /\ \E d \in DOMAIN consumer :
          /\ consumer[d].state = "OPEN"
          /\ consumer[d].groups = {}
          /\ d \notin DOMAIN channel_queue

\* C29: the connection table and the metadata table have the same keys,
\* these keys are exactly the ids listed in the per-user index, no id is
\* listed twice or for two users, and no user maps to an empty list.
C29_TablesConsistent ==
    /\ DOMAIN active_connections = DOMAIN connection_metadata
    /\ DOMAIN active_connections = Indexed
    /\ \A u \in DOMAIN user_connections :
          /\ user_connections[u] /= <<>>
          /\ Cardinality(Range(user_connections[u])) = Len(user_connections[u])
          /\ \A v \in DOMAIN user_connections \ {u} :
                 Range(user_connections[u]) \cap Range(user_connections[v]) = {}
    /\ \A c \in DOMAIN active_connections :
          c \in Range(user_connections[active_connections[c].user_id])

\* three connections were admitted, one was removed again, and both users
\* are listed in the index
C29_BothUsersAfterRemoval ==
    /\ nextId = 3
    /\ Cardinality(DOMAIN active_connections) = 2
    /\ DOMAIN user_connections = Users


====
